---- MODULE Spec2Model ----
(***************************************************************************)
(* Model of the server actions of the polling application:                 *)
(*   - the in-memory rate limiter (checkRateLimit over the rateLimit Map), *)
(*   - the poll actions createPoll, submitVote, deletePoll, updatePoll,    *)
(*   - the auth actions login and register (their own rateLimit Map).      *)
(* Every awaited backend call is one step of an invocation; the code that  *)
(* runs between two awaits is part of the step that the await resumes.     *)
(***************************************************************************)
EXTENDS Integers, Sequences, FiniteSets, TLC

(* ------------------------------------------------------------------ *)
(* Program constants                                                   *)
(* ------------------------------------------------------------------ *)
MAX_ATTEMPTS == 5
RESET_INTERVAL == 60 * 1000

(* ------------------------------------------------------------------ *)
(* Bounds of the model                                                 *)
(* ------------------------------------------------------------------ *)
\* direct calls of checkRateLimit explored by SpecRL
MaxCalls == 7
\* the clock advances by whole windows at most MaxEpoch times ...
MaxEpoch == 2
\* ... and by single milliseconds at most MaxFine times inside each
MaxFine == 1

\* invocations of the actions explored by Spec and SpecSeq
MaxInvocations == 2
\* polls created by createPoll in one run
MaxPolls == 2
\* the clock of Spec and SpecSeq passes a whole window at most MaxResets times
MaxResets == 1

VARIABLES
    now,            \* Date.now()
    rateLimit,      \* the Map of the poll actions: key -> {count, lastReset}
    authRateLimit,  \* the Map of auth-actions.ts, a module of its own
    polls,          \* backend table "polls": id -> row
    votes,          \* backend table "votes": the rows, in insertion order
    created,        \* number of polls rows the backend has given an id
    nCalls,         \* number of invocations started so far
    pc,             \* per invocation slot: where the invocation stands
    call,           \* per slot: the action, the caller's session, the arguments
    loc,            \* per slot: the local variables of the invocation
    result,         \* per slot: the error of the returned object
    trace,          \* history, per slot: what the invocation has done, in order
    before,         \* history, per slot: the tables when the invocation started
    callLog,        \* history: per key, the direct checkRateLimit calls so far
    last            \* history: the most recent direct checkRateLimit call

limiterVars == <<rateLimit, callLog, last>>
tableVars == <<polls, votes, created>>
slotVars == <<pc, call, loc, result, trace, before>>
vars == <<now, rateLimit, authRateLimit, polls, votes, created, nCalls,
          pc, call, loc, result, trace, before, callLog, last>>

(* ------------------------------------------------------------------ *)
(* Inputs                                                              *)
(* ------------------------------------------------------------------ *)
Users == {"u1", "u2"}
NoUser == "null"
Callers == Users \cup {NoUser}
Slots == {1, 2}

\* ids the backend gives to polls rows, in order; all are UUIDs
PollIdPool == <<"p1", "p2", "p3">>
NotAUuid == "not-a-uuid"
IdInputs == {"p1", "p2", NotAUuid}

\* a string, by its length: `core` characters between `pad` white space
\* characters at its ends
Str(pad, core) == [pad |-> pad, core |-> core]
length(s) == s.pad + s.core
trim(s) == Str(0, s.core)

\* FormData of createPoll and updatePoll: get("question"), getAll("options")
PollForms ==
    { [question |-> Str(0, 5), options |-> <<Str(0, 1), Str(0, 1)>>],
      [question |-> Str(0, 5), options |-> <<Str(0, 1), Str(0, 0), Str(1, 2), Str(0, 1)>>],
      [question |-> Str(0, 5), options |-> <<Str(0, 1), Str(0, 0)>>],
      [question |-> Str(0, 4), options |-> <<Str(0, 1), Str(0, 1)>>] }

IndexInputs == {-1, 1, 2, 3}

\* LoginFormData and RegisterFormData: the email, valid or not, and lengths
AuthForms ==
    { [email |-> "a@x.io", valid |-> TRUE, password |-> 6, name |-> 2],
      [email |-> "a@x.io", valid |-> TRUE, password |-> 5, name |-> 2],
      [email |-> "nope", valid |-> FALSE, password |-> 6, name |-> 1] }

(* ------------------------------------------------------------------ *)
(* Schemas (zod)                                                       *)
(* ------------------------------------------------------------------ *)
Issue(path, message) == [path |-> path, message |-> message]

\* z.string().uuid(...)
isUuid(id) == \E i \in 1..Len(PollIdPool) : PollIdPool[i] = id

\* faulty variant: every string passes
idSchema_AcceptsAll(id) == << >>

\* idSchema.safeParse(id): the issues
idSchema(id) ==
    IF isUuid(id) THEN << >> ELSE <<Issue(<< >>, "Invalid ID format")>>

\* voteSchema.safeParse({pollId, optionIndex}): the issues
voteSchema(pollId, optionIndex) ==
    (IF isUuid(pollId) THEN << >>
     ELSE <<Issue(<<"pollId">>, "Invalid poll ID format")>>)
    \o (IF optionIndex >= 0 THEN << >>
        ELSE <<Issue(<<"optionIndex">>, "Option index cannot be negative")>>)

\* formData.getAll("options").filter(Boolean): empty strings are dropped
filterBoolean(options) == SelectSeq(options, LAMBDA o : length(o) > 0)

\* faulty variant: one option is enough
pollSchemaOk_OneOption(question, options) ==
    /\ length(question) >= 5
    /\ length(question) <= 255
    /\ \A i \in 1..Len(options) : length(options[i]) >= 1 /\ length(options[i]) <= 100
    /\ Len(options) >= 1

\* pollSchema.parse({question, options}) succeeds
pollSchemaOk(question, options) ==
    /\ length(question) >= 5
    /\ length(question) <= 255
    /\ \A i \in 1..Len(options) : length(options[i]) >= 1 /\ length(options[i]) <= 100
    /\ Len(options) >= 2

\* the value pollSchema.parse returns: the strings trimmed
pollSchemaData(question, options) ==
    [question |-> trim(question),
     options |-> [i \in 1..Len(options) |-> trim(options[i])]]

\* loginSchema.safeParse(data): the issues
loginSchema(data) ==
    (IF data.valid THEN << >> ELSE <<Issue(<<"email">>, "Invalid email address")>>)
    \o (IF data.password >= 6 THEN << >>
        ELSE <<Issue(<<"password">>, "Password must be at least 6 characters long")>>)

\* registerSchema.safeParse(data): the issues
registerSchema(data) ==
    (IF data.name >= 2 THEN << >>
     ELSE <<Issue(<<"name">>, "Name must be at least 2 characters long")>>)
    \o loginSchema(data)

Undefined == "undefined"

\* error.flatten().formErrors[0]: the first message of the issues whose path
\* is empty; issues of a field of an object go to fieldErrors
formErrors0(issues) ==
    LET form == SelectSeq(issues, LAMBDA i : i.path = << >>)
    IN IF form = << >> THEN Undefined ELSE form[1].message

(* ------------------------------------------------------------------ *)
(* Rate limiter                                                        *)
(* ------------------------------------------------------------------ *)
\* template strings `${action}-${identity}`
Key(action, id) == [action |-> action, id |-> id]

RLKeys == {Key("create-poll", "u1"), Key("create-poll", "anonymous")}

\* rateLimit.has(key)
has(rl, key) == key \in DOMAIN rl

\* faulty variant: set replaces the whole Map by the one entry
set_DropsOthers(rl, key, value) == [k \in {key} |-> value]

\* rateLimit.set(key, value)
set(rl, key, value) ==
    [k \in (DOMAIN rl) \cup {key} |-> IF k = key THEN value ELSE rl[k]]

\* faulty variant: the window already counts as run out at exactly RESET_INTERVAL
windowExpired_Inclusive(rl, key, t) ==
    \/ ~has(rl, key)
    \/ t - rl[key].lastReset >= RESET_INTERVAL

\* the condition of the first branch of checkRateLimit
windowExpired(rl, key, t) ==
    \/ ~has(rl, key)
    \/ t - rl[key].lastReset > RESET_INTERVAL

\* faulty variant: off by one in the comparison with MAX_ATTEMPTS
limitReached_OffByOne(entry) == entry.count > MAX_ATTEMPTS

\* the condition of the second branch
limitReached(entry) == entry.count >= MAX_ATTEMPTS

\* the value checkRateLimit(key) returns at time t
checkRateLimit(rl, key, t) ==
    IF windowExpired(rl, key, t) THEN TRUE
    ELSE IF limitReached(rl[key]) THEN FALSE
    ELSE TRUE

\* faulty variant: entry.count++ moved in front of the test of the limit
checkRateLimitMap_CountsDenied(rl, key, t) ==
    IF windowExpired(rl, key, t)
    THEN set(rl, key, [count |-> 1, lastReset |-> t])
    ELSE [rl EXCEPT ![key].count = @ + 1]

\* faulty variant: entry.count++ forgotten
checkRateLimitMap_NoIncrement(rl, key, t) ==
    IF windowExpired(rl, key, t)
    THEN set(rl, key, [count |-> 1, lastReset |-> t])
    ELSE rl

\* the Map after checkRateLimit(key) at time t
checkRateLimitMap(rl, key, t) ==
    IF windowExpired(rl, key, t)
    THEN set(rl, key, [count |-> 1, lastReset |-> t])
    ELSE IF limitReached(rl[key]) THEN rl
    ELSE [rl EXCEPT ![key].count = @ + 1]

\* history of one call
LogEntry(rl, key, t) ==
    [t |-> t, ok |-> checkRateLimit(rl, key, t), reset |-> windowExpired(rl, key, t)]

(* ------------------------------------------------------------------ *)
(* Invocations                                                         *)
(* ------------------------------------------------------------------ *)
NullError == "null"
Thrown == "ZodError thrown"
NoError == "no error"
\* the message of an error the backend reports
BackendMessage == "backend error text"

NoForm == [question |-> Str(0, 0), options |-> << >>]
NoAuth == [email |-> "", valid |-> FALSE, password |-> 0, name |-> 0]
NoCall == [action |-> "none", caller |-> NoUser, id |-> "", index |-> 0,
           form |-> NoForm, auth |-> NoAuth]
NoLoc == [user |-> NoUser, data |-> NoForm]
NoTables == [polls |-> << >>, votes |-> << >>]

actionVars == <<authRateLimit, polls, votes, created, nCalls,
                pc, call, loc, result, trace, before>>

InitSlots ==
    /\ pc = [p \in Slots |-> "idle"]
    /\ call = [p \in Slots |-> NoCall]
    /\ loc = [p \in Slots |-> NoLoc]
    /\ result = [p \in Slots |-> NullError]
    /\ trace = [p \in Slots |-> << >>]
    /\ before = [p \in Slots |-> NoTables]

\* the state after construction: both Maps and the tables empty
InitActions ==
    /\ authRateLimit = << >>
    /\ polls = << >>
    /\ votes = << >>
    /\ created = 0
    /\ nCalls = 0
    /\ InitSlots

\* supabase.auth.getUser(): the session's user, or an error of the backend
getUser(caller) ==
    { [user |-> caller, error |-> NoError],
      [user |-> NoUser, error |-> BackendMessage] }

\* what a backend call adds to the history of an invocation
Ev(name, ok) == IF ok THEN <<name>> ELSE <<name, "backend error">>
EvUser(u) == Ev("getUser", u.error = NoError)

\* faulty variant: the identity left out of the key
rateLimitKey_NoIdentity(action, user) == Key(action, "anonymous")

\* the template string of the rate-limit key of an action
rateLimitKey(action, user) ==
    IF user # NoUser THEN Key(action, user) ELSE Key(action, "anonymous")

\* the invocation returns { error: err } (or throws, err = Thrown)
Return(p, err, events) ==
    /\ pc' = [pc EXCEPT ![p] = "done"]
    /\ result' = [result EXCEPT ![p] = err]
    /\ trace' = [trace EXCEPT ![p] = @ \o events]

\* the invocation goes on to its next awaited call
Goto(p, label, events) ==
    /\ pc' = [pc EXCEPT ![p] = label]
    /\ trace' = [trace EXCEPT ![p] = @ \o events]
    /\ UNCHANGED result

\* an invocation starts in slot p: createClient() and the tables as they are
Begin(p, c) ==
    /\ pc[p] = "idle"
    /\ nCalls < MaxInvocations
    /\ nCalls' = nCalls + 1
    /\ call' = [call EXCEPT ![p] = c]
    /\ before' = [before EXCEPT ![p] = [polls |-> polls, votes |-> votes]]
    /\ loc' = [loc EXCEPT ![p] = NoLoc]

\* the caller has taken the result: the slot is free again
Resolve(p) ==
    /\ pc[p] = "done"
    /\ pc' = [pc EXCEPT ![p] = "idle"]
    /\ call' = [call EXCEPT ![p] = NoCall]
    /\ loc' = [loc EXCEPT ![p] = NoLoc]
    /\ result' = [result EXCEPT ![p] = NullError]
    /\ trace' = [trace EXCEPT ![p] = << >>]
    /\ before' = [before EXCEPT ![p] = NoTables]
    /\ UNCHANGED <<now, limiterVars, authRateLimit, tableVars, nCalls>>

(* ---------------------------- createPoll --------------------------- *)
\* createPoll(formData) is called; it awaits createClient(), then getUser()
createPoll(p) ==
    \E caller \in Callers, form \in PollForms :
        /\ created < MaxPolls
        /\ Begin(p, [NoCall EXCEPT !.action = "create-poll", !.caller = caller,
                                   !.form = form])
        /\ pc' = [pc EXCEPT ![p] = "createPoll_gate"]
        /\ trace' = [trace EXCEPT ![p] = << >>]
        /\ UNCHANGED <<now, limiterVars, authRateLimit, tableVars, result>>

\* lines 43-52: getUser() resolves, the rate-limit gate, pollSchema.parse
createPoll_gate(p) ==
    /\ pc[p] = "createPoll_gate"
    /\ \E u \in getUser(call[p].caller) :
        LET key == rateLimitKey("create-poll", u.user)
            options == filterBoolean(call[p].form.options)
            question == call[p].form.question
        IN /\ rateLimit' = checkRateLimitMap(rateLimit, key, now)
           /\ IF ~checkRateLimit(rateLimit, key, now)
              THEN /\ Return(p, "Too many poll creation attempts. Please try again later.",
                             EvUser(u) \o <<"checkRateLimit", "denied">>)
                   /\ UNCHANGED loc
              ELSE IF ~pollSchemaOk(question, options)
              THEN /\ Return(p, Thrown, EvUser(u) \o <<"checkRateLimit", "pollSchema">>)
                   /\ UNCHANGED loc
              ELSE /\ Goto(p, "createPoll_session",
                           EvUser(u) \o <<"checkRateLimit", "pollSchema">>)
                   /\ loc' = [loc EXCEPT ![p].data = pollSchemaData(question, options)]
    /\ UNCHANGED <<now, callLog, last, authRateLimit, tableVars, nCalls, call, before>>

\* faulty variant: a missing user is not turned away
createPoll_session_NoLoginCheck(p) ==
    /\ pc[p] = "createPoll_session"
    /\ \E u \in getUser(call[p].caller) :
        IF u.error # NoError
        THEN Return(p, u.error, EvUser(u)) /\ UNCHANGED loc
        ELSE /\ Goto(p, "createPoll_insert", EvUser(u))
             /\ loc' = [loc EXCEPT ![p].user = u.user]
    /\ UNCHANGED <<now, limiterVars, authRateLimit, tableVars, nCalls, call, before>>

\* lines 55-64: the second getUser() resolves
createPoll_session(p) ==
    /\ pc[p] = "createPoll_session"
    /\ \E u \in getUser(call[p].caller) :
        IF u.error # NoError
        THEN Return(p, u.error, EvUser(u)) /\ UNCHANGED loc
        ELSE IF u.user = NoUser
        THEN Return(p, "You must be logged in to create a poll.", EvUser(u))
             /\ UNCHANGED loc
        ELSE /\ Goto(p, "createPoll_insert", EvUser(u))
             /\ loc' = [loc EXCEPT ![p].user = u.user]
    /\ UNCHANGED <<now, limiterVars, authRateLimit, tableVars, nCalls, call, before>>

\* lines 66-80: the insert resolves
createPoll_insert(p) ==
    /\ pc[p] = "createPoll_insert"
    /\ \E ok \in BOOLEAN :
        IF ~ok
        THEN /\ Return(p, "Failed to create poll. Please try again.", Ev("insert polls", ok))
             /\ UNCHANGED tableVars
        ELSE /\ Return(p, NullError, <<"insert polls", "revalidatePath">>)
             /\ created' = created + 1
             /\ polls' = set(polls, PollIdPool[created + 1],
                             [user_id |-> loc[p].user,
                              question |-> loc[p].data.question,
                              options |-> loc[p].data.options])
             /\ UNCHANGED votes
    /\ UNCHANGED <<now, limiterVars, authRateLimit, nCalls, call, loc, before>>

(* ---------------------------- deletePoll --------------------------- *)
\* deletePoll(id) is called: createClient(), then idSchema.safeParse(id)
deletePoll(p) ==
    \E caller \in Callers, id \in IdInputs :
        /\ Begin(p, [NoCall EXCEPT !.action = "delete-poll", !.caller = caller, !.id = id])
        /\ IF idSchema(id) # << >>
           THEN /\ pc' = [pc EXCEPT ![p] = "done"]
                /\ result' = [result EXCEPT ![p] = formErrors0(idSchema(id))]
           ELSE /\ pc' = [pc EXCEPT ![p] = "deletePoll_gate"]
                /\ UNCHANGED result
        /\ trace' = [trace EXCEPT ![p] = <<"idSchema">>]
        /\ UNCHANGED <<now, limiterVars, authRateLimit, tableVars>>

\* lines 200-211: getUser() resolves, the rate-limit gate, the session checks
deletePoll_gate(p) ==
    /\ pc[p] = "deletePoll_gate"
    /\ \E u \in getUser(call[p].caller) :
        LET key == rateLimitKey("delete-poll", u.user)
        IN /\ rateLimit' = checkRateLimitMap(rateLimit, key, now)
           /\ IF ~checkRateLimit(rateLimit, key, now)
              THEN /\ Return(p, "Too many poll deletion attempts. Please try again later.",
                             EvUser(u) \o <<"checkRateLimit", "denied">>)
                   /\ UNCHANGED loc
              ELSE IF u.error # NoError
              THEN Return(p, u.error, EvUser(u) \o <<"checkRateLimit">>) /\ UNCHANGED loc
              ELSE IF u.user = NoUser
              THEN /\ Return(p, "You must be logged in to delete a poll.",
                             EvUser(u) \o <<"checkRateLimit">>)
                   /\ UNCHANGED loc
              ELSE /\ Goto(p, "deletePoll_fetch", EvUser(u) \o <<"checkRateLimit">>)
                   /\ loc' = [loc EXCEPT ![p].user = u.user]
    /\ UNCHANGED <<now, callLog, last, authRateLimit, tableVars, nCalls, call, before>>

\* faulty variant: the ownership check never fires
notOwner_Never(poll, user) == FALSE

\* the test of line 225
notOwner(poll, user) == poll.user_id # user

\* lines 214-227: the select of the owner resolves
deletePoll_fetch(p) ==
    /\ pc[p] = "deletePoll_fetch"
    /\ \E ok \in BOOLEAN :
        IF ~ok \/ ~has(polls, call[p].id)
        THEN Return(p, "Poll not found or failed to verify ownership.", Ev("select polls", ok))
        ELSE IF notOwner(polls[call[p].id], loc[p].user)
        THEN Return(p, "You are not authorized to delete this poll.", Ev("select polls", ok))
        ELSE Goto(p, "deletePoll_delete", Ev("select polls", ok))
    /\ UNCHANGED <<now, limiterVars, authRateLimit, tableVars, nCalls, call, loc, before>>

\* the rows of polls with this id and this owner removed
deleteWhere(table, id, user) ==
    [k \in {i \in DOMAIN table : ~(i = id /\ table[i].user_id = user)} |-> table[k]]

\* lines 229-235: the delete resolves
deletePoll_delete(p) ==
    /\ pc[p] = "deletePoll_delete"
    /\ \E ok \in BOOLEAN :
        IF ~ok
        THEN /\ Return(p, "Failed to delete poll. Please try again.", Ev("delete polls", ok))
             /\ UNCHANGED polls
        ELSE /\ Return(p, NullError, <<"delete polls", "revalidatePath">>)
             /\ polls' = deleteWhere(polls, call[p].id, loc[p].user)
    /\ UNCHANGED <<now, limiterVars, authRateLimit, votes, created, nCalls,
                   call, loc, before>>

(* ---------------------------- updatePoll --------------------------- *)
\* updatePoll(pollId, formData) is called: createClient(), idSchema.safeParse
updatePoll(p) ==
    \E caller \in Callers, id \in IdInputs, form \in PollForms :
        /\ Begin(p, [NoCall EXCEPT !.action = "update-poll", !.caller = caller,
                                   !.id = id, !.form = form])
        /\ IF idSchema(id) # << >>
           THEN /\ pc' = [pc EXCEPT ![p] = "done"]
                /\ result' = [result EXCEPT ![p] = formErrors0(idSchema(id))]
           ELSE /\ pc' = [pc EXCEPT ![p] = "updatePoll_gate"]
                /\ UNCHANGED result
        /\ trace' = [trace EXCEPT ![p] = <<"idSchema">>]
        /\ UNCHANGED <<now, limiterVars, authRateLimit, tableVars>>

\* lines 247-256: getUser() resolves, the rate-limit gate, pollSchema.parse
updatePoll_gate(p) ==
    /\ pc[p] = "updatePoll_gate"
    /\ \E u \in getUser(call[p].caller) :
        LET key == rateLimitKey("update-poll", u.user)
            options == filterBoolean(call[p].form.options)
            question == call[p].form.question
        IN /\ rateLimit' = checkRateLimitMap(rateLimit, key, now)
           /\ IF ~checkRateLimit(rateLimit, key, now)
              THEN /\ Return(p, "Too many poll update attempts. Please try again later.",
                             EvUser(u) \o <<"checkRateLimit", "denied">>)
                   /\ UNCHANGED loc
              ELSE IF ~pollSchemaOk(question, options)
              THEN /\ Return(p, Thrown, EvUser(u) \o <<"checkRateLimit", "pollSchema">>)
                   /\ UNCHANGED loc
              ELSE /\ Goto(p, "updatePoll_session",
                           EvUser(u) \o <<"checkRateLimit", "pollSchema">>)
                   /\ loc' = [loc EXCEPT ![p].data = pollSchemaData(question, options)]
    /\ UNCHANGED <<now, callLog, last, authRateLimit, tableVars, nCalls, call, before>>

\* lines 258-268: the second getUser() resolves
updatePoll_session(p) ==
    /\ pc[p] = "updatePoll_session"
    /\ \E u \in getUser(call[p].caller) :
        IF u.error # NoError
        THEN Return(p, u.error, EvUser(u)) /\ UNCHANGED loc
        ELSE IF u.user = NoUser
        THEN Return(p, "You must be logged in to update a poll.", EvUser(u))
             /\ UNCHANGED loc
        ELSE /\ Goto(p, "updatePoll_update", EvUser(u))
             /\ loc' = [loc EXCEPT ![p].user = u.user]
    /\ UNCHANGED <<now, limiterVars, authRateLimit, tableVars, nCalls, call, before>>

\* faulty variant: the filter on user_id forgotten
updateWhere_AnyOwner(table, id, user, patch) ==
    [k \in DOMAIN table |->
        IF k = id
        THEN [table[k] EXCEPT !.question = patch.question, !.options = patch.options]
        ELSE table[k]]

\* the rows of polls with this id and this owner patched
updateWhere(table, id, user, patch) ==
    [k \in DOMAIN table |->
        IF k = id /\ table[k].user_id = user
        THEN [table[k] EXCEPT !.question = patch.question, !.options = patch.options]
        ELSE table[k]]

\* lines 270-282: the update resolves
updatePoll_update(p) ==
    /\ pc[p] = "updatePoll_update"
    /\ \E ok \in BOOLEAN :
        IF ~ok
        THEN /\ Return(p, "Failed to update poll. Please try again.", Ev("update polls", ok))
             /\ UNCHANGED polls
        ELSE /\ Return(p, NullError, Ev("update polls", ok))
             /\ polls' = updateWhere(polls, call[p].id, loc[p].user, loc[p].data)
    /\ UNCHANGED <<now, limiterVars, authRateLimit, votes, created, nCalls,
                   call, loc, before>>

(* ---------------------------- submitVote --------------------------- *)
\* submitVote(pollId, optionIndex) is called: createClient(), voteSchema
submitVote(p) ==
    \E caller \in Callers, id \in IdInputs, index \in IndexInputs :
        /\ Begin(p, [NoCall EXCEPT !.action = "submit-vote", !.caller = caller,
                                   !.id = id, !.index = index])
        /\ IF voteSchema(id, index) # << >>
           THEN /\ pc' = [pc EXCEPT ![p] = "done"]
                /\ result' = [result EXCEPT ![p] = formErrors0(voteSchema(id, index))]
           ELSE /\ pc' = [pc EXCEPT ![p] = "submitVote_gate"]
                /\ UNCHANGED result
        /\ trace' = [trace EXCEPT ![p] = <<"voteSchema">>]
        /\ UNCHANGED <<now, limiterVars, authRateLimit, tableVars>>

\* faulty variant: the denial is not returned, the vote goes on
submitVote_gate_IgnoresDenial(p) ==
    /\ pc[p] = "submitVote_gate"
    /\ \E u \in getUser(call[p].caller) :
        LET key == rateLimitKey("submit-vote", u.user)
        IN /\ rateLimit' = checkRateLimitMap(rateLimit, key, now)
           /\ IF ~checkRateLimit(rateLimit, key, now)
              THEN Goto(p, "submitVote_poll", EvUser(u) \o <<"checkRateLimit", "denied">>)
              ELSE Goto(p, "submitVote_poll", EvUser(u) \o <<"checkRateLimit">>)
    /\ UNCHANGED <<now, callLog, last, authRateLimit, tableVars, nCalls, call, loc, before>>

\* lines 135-139: getUser() resolves, the rate-limit gate
submitVote_gate(p) ==
    /\ pc[p] = "submitVote_gate"
    /\ \E u \in getUser(call[p].caller) :
        LET key == rateLimitKey("submit-vote", u.user)
        IN /\ rateLimit' = checkRateLimitMap(rateLimit, key, now)
           /\ IF ~checkRateLimit(rateLimit, key, now)
              THEN Return(p, "Too many voting attempts. Please try again later.",
                          EvUser(u) \o <<"checkRateLimit", "denied">>)
              ELSE Goto(p, "submitVote_poll", EvUser(u) \o <<"checkRateLimit">>)
    /\ UNCHANGED <<now, callLog, last, authRateLimit, tableVars, nCalls, call, loc, before>>

\* faulty variant: off by one at the upper end
indexOutOfRange_OffByOne(index, options) == index < 0 \/ index > Len(options)

\* the test of line 152
indexOutOfRange(index, options) == index < 0 \/ index >= Len(options)

\* lines 141-154: the select of the poll's options resolves
submitVote_poll(p) ==
    /\ pc[p] = "submitVote_poll"
    /\ \E ok \in BOOLEAN :
        IF ~ok \/ ~has(polls, call[p].id)
        THEN Return(p, "Poll not found or failed to retrieve poll options.",
                    Ev("select polls", ok))
        ELSE IF indexOutOfRange(call[p].index, polls[call[p].id].options)
        THEN Return(p, "Invalid option selected.", Ev("select polls", ok))
        ELSE Goto(p, "submitVote_session", Ev("select polls", ok))
    /\ UNCHANGED <<now, limiterVars, authRateLimit, tableVars, nCalls, call, loc, before>>

\* line 156: the second getUser() resolves; its error is not looked at
submitVote_session(p) ==
    /\ pc[p] = "submitVote_session"
    /\ \E u \in getUser(call[p].caller) :
        /\ loc' = [loc EXCEPT ![p].user = u.user]
        /\ IF u.user # NoUser
           THEN Goto(p, "submitVote_existing", EvUser(u))
           ELSE Goto(p, "submitVote_insert", EvUser(u))
    /\ UNCHANGED <<now, limiterVars, authRateLimit, tableVars, nCalls, call, before>>

\* faulty variant: the filter on user_id forgotten
votesOf_AnyUser(table, id, user) == SelectSeq(table, LAMBDA v : v.poll_id = id)

\* the rows of votes with this poll_id and this user_id
votesOf(table, id, user) ==
    SelectSeq(table, LAMBDA v : v.poll_id = id /\ v.user_id = user)

\* faulty variant: the row is never found
single_NoRow(rows) == [data |-> FALSE, code |-> "PGRST116"]

\* .single(): the row when the select yields exactly one, else the error
\* PGRST116 (no row, or more than one) and no data
single(rows) ==
    IF Len(rows) = 1 THEN [data |-> TRUE, code |-> NoError]
    ELSE [data |-> FALSE, code |-> "PGRST116"]

\* lines 160-173: the select of an existing vote resolves
submitVote_existing(p) ==
    /\ pc[p] = "submitVote_existing"
    /\ \E ok \in BOOLEAN :
        LET existing == IF ok THEN single(votesOf(votes, call[p].id, loc[p].user))
                        ELSE [data |-> FALSE, code |-> BackendMessage]
        IN IF existing.data
           THEN Return(p, "You have already voted on this poll.", Ev("select votes", ok))
           ELSE IF existing.code # NoError /\ existing.code # "PGRST116"
           THEN Return(p, "Failed to check for existing vote.", Ev("select votes", ok))
           ELSE Goto(p, "submitVote_insert", Ev("select votes", ok))
    /\ UNCHANGED <<now, limiterVars, authRateLimit, tableVars, nCalls, call, loc, before>>

\* lines 176-188: the insert resolves
submitVote_insert(p) ==
    /\ pc[p] = "submitVote_insert"
    /\ \E ok \in BOOLEAN :
        IF ~ok
        THEN /\ Return(p, "Failed to submit vote. Please try again.", Ev("insert votes", ok))
             /\ UNCHANGED votes
        ELSE /\ Return(p, NullError, Ev("insert votes", ok))
             /\ votes' = Append(votes, [poll_id |-> call[p].id,
                                        user_id |-> loc[p].user,
                                        option_index |-> call[p].index])
    /\ UNCHANGED <<now, limiterVars, authRateLimit, polls, created, nCalls,
                   call, loc, before>>

(* ------------------------- login, register ------------------------- *)
\* login(data) is called: createClient(), the rate-limit gate of
\* auth-actions.ts, loginSchema.safeParse; it then awaits signInWithPassword
login(p) ==
    \E data \in AuthForms :
        LET key == Key("login", data.email)
        IN /\ Begin(p, [NoCall EXCEPT !.action = "login", !.auth = data])
           /\ authRateLimit' = checkRateLimitMap(authRateLimit, key, now)
           /\ IF ~checkRateLimit(authRateLimit, key, now)
              THEN /\ pc' = [pc EXCEPT ![p] = "done"]
                   /\ result' = [result EXCEPT ![p] =
                                   "Too many login attempts. Please try again later."]
                   /\ trace' = [trace EXCEPT ![p] = <<"checkRateLimit", "denied">>]
              ELSE IF loginSchema(data) # << >>
              THEN /\ pc' = [pc EXCEPT ![p] = "done"]
                   /\ result' = [result EXCEPT ![p] = formErrors0(loginSchema(data))]
                   /\ trace' = [trace EXCEPT ![p] = <<"checkRateLimit", "loginSchema">>]
              ELSE /\ pc' = [pc EXCEPT ![p] = "login_signIn"]
                   /\ trace' = [trace EXCEPT ![p] = <<"checkRateLimit", "loginSchema">>]
                   /\ UNCHANGED result
           /\ UNCHANGED <<now, limiterVars, tableVars>>

\* lines 50-60: signInWithPassword resolves
login_signIn(p) ==
    /\ pc[p] = "login_signIn"
    /\ \E ok \in BOOLEAN :
        IF ~ok
        THEN Return(p, "Login failed. Please check your credentials.", Ev("signIn", ok))
        ELSE Return(p, NullError, Ev("signIn", ok))
    /\ UNCHANGED <<now, limiterVars, authRateLimit, tableVars, nCalls, call, loc, before>>

\* register(data) is called: createClient(), the gate, registerSchema
register(p) ==
    \E data \in AuthForms :
        LET key == Key("register", data.email)
        IN /\ Begin(p, [NoCall EXCEPT !.action = "register", !.auth = data])
           /\ authRateLimit' = checkRateLimitMap(authRateLimit, key, now)
           /\ IF ~checkRateLimit(authRateLimit, key, now)
              THEN /\ pc' = [pc EXCEPT ![p] = "done"]
                   /\ result' = [result EXCEPT ![p] =
                                   "Too many registration attempts. Please try again later."]
                   /\ trace' = [trace EXCEPT ![p] = <<"checkRateLimit", "denied">>]
              ELSE IF registerSchema(data) # << >>
              THEN /\ pc' = [pc EXCEPT ![p] = "done"]
                   /\ result' = [result EXCEPT ![p] = formErrors0(registerSchema(data))]
                   /\ trace' = [trace EXCEPT ![p] = <<"checkRateLimit", "registerSchema">>]
              ELSE /\ pc' = [pc EXCEPT ![p] = "register_signUp"]
                   /\ trace' = [trace EXCEPT ![p] = <<"checkRateLimit", "registerSchema">>]
                   /\ UNCHANGED result
           /\ UNCHANGED <<now, limiterVars, tableVars>>

\* lines 75-90: signUp resolves
register_signUp(p) ==
    /\ pc[p] = "register_signUp"
    /\ \E ok \in BOOLEAN :
        IF ~ok
        THEN Return(p, "Registration failed", Ev("signUp", ok))
        ELSE Return(p, NullError, Ev("signUp", ok))
    /\ UNCHANGED <<now, limiterVars, authRateLimit, tableVars, nCalls, call, loc, before>>

TotalCalls == LET RECURSIVE Sum(_)
                  Sum(S) == IF S = {} THEN 0
                            ELSE LET k == CHOOSE x \in S : TRUE
                                 IN Len(callLog[k]) + Sum(S \ {k})
              IN Sum(DOMAIN callLog)

InitRL ==
    /\ now = 0
    /\ rateLimit = << >>
    /\ callLog = [k \in RLKeys |-> << >>]
    /\ last = [made |-> FALSE]
    /\ InitActions

\* one direct call checkRateLimit(key)
RLCall(key) ==
    /\ TotalCalls < MaxCalls
    /\ rateLimit' = checkRateLimitMap(rateLimit, key, now)
    /\ callLog' = [callLog EXCEPT ![key] = Append(@, LogEntry(rateLimit, key, now))]
    /\ last' = [made |-> TRUE, key |-> key, t |-> now,
                ok |-> checkRateLimit(rateLimit, key, now),
                before |-> rateLimit]
    /\ UNCHANGED <<now, actionVars>>

\* the clock advances by one millisecond
TickFine ==
    /\ now % RESET_INTERVAL < MaxFine
    /\ now' = now + 1
    /\ UNCHANGED <<limiterVars, actionVars>>

\* the clock advances by one whole window length
TickWindow ==
    /\ now \div RESET_INTERVAL < MaxEpoch
    /\ now' = now + RESET_INTERVAL
    /\ UNCHANGED <<limiterVars, actionVars>>

NextRL ==
    \/ \E key \in RLKeys : RLCall(key)
    \/ TickFine
    \/ TickWindow

SpecRL == InitRL /\ [][NextRL]_vars

(* ------------------------------------------------------------------ *)
(* The actions, one invocation at a time (SpecSeq) or overlapping (Spec) *)
(* ------------------------------------------------------------------ *)
\* The server process has run for a while when the exploration starts: at
\* most one key of each Map has used MAX_ATTEMPTS - 1 attempts of a window
\* opened at time 0 by calls that changed no table (a body that fails
\* pollSchema, a poll that does not exist, a password that is too short).
ActionKeys ==
    {Key(a, id) : a \in {"create-poll", "update-poll", "delete-poll", "submit-vote"},
                  id \in Users \cup {"anonymous"}}
AuthKeys == {Key(a, f.email) : a \in {"login", "register"}, f \in AuthForms}
WarmMaps(keys) ==
    {<< >>} \cup {set(<< >>, k, [count |-> MAX_ATTEMPTS - 1, lastReset |-> 0]) : k \in keys}

\* The tables hold what earlier invocations left: nothing, or a poll of u1
\* as createPoll stores it, or that poll and a vote of u1 on it.
WarmPoll == [user_id |-> "u1", question |-> Str(0, 5),
             options |-> <<Str(0, 1), Str(0, 1)>>]
WarmTables ==
    { [polls |-> << >>, votes |-> << >>, created |-> 0],
      [polls |-> set(<< >>, PollIdPool[1], WarmPoll), votes |-> << >>, created |-> 1],
      [polls |-> set(<< >>, PollIdPool[1], WarmPoll),
       votes |-> <<[poll_id |-> PollIdPool[1], user_id |-> "u1", option_index |-> 0]>>,
       created |-> 1] }

\* the tables as earlier invocations left them
InitTables ==
    \E t \in WarmTables :
        /\ polls = t.polls
        /\ votes = t.votes
        /\ created = t.created

\* the Maps as earlier invocations left them
InitMaps ==
    \E m \in WarmMaps(ActionKeys) \cup WarmMaps(AuthKeys) :
        IF \A k \in DOMAIN m : k \in ActionKeys
        THEN rateLimit = m /\ authRateLimit = << >>
        ELSE rateLimit = << >> /\ authRateLimit = m

\* a process that has just started, in front of tables that are in use
InitFresh ==
    /\ now = 0
    /\ rateLimit = << >>
    /\ authRateLimit = << >>
    /\ InitTables
    /\ nCalls = 0
    /\ InitSlots
    /\ callLog = [k \in RLKeys |-> << >>]
    /\ last = [made |-> FALSE]

\* a process that has served requests, in front of tables that are in use
Init ==
    /\ now = 0
    /\ InitMaps
    /\ InitTables
    /\ nCalls = 0
    /\ InitSlots
    /\ callLog = [k \in RLKeys |-> << >>]
    /\ last = [made |-> FALSE]

\* the clock passes the end of every open window
TickPast ==
    /\ now \div RESET_INTERVAL < MaxResets
    /\ now' = now + RESET_INTERVAL + 1
    /\ UNCHANGED <<limiterVars, actionVars>>

Step(p) ==
    \/ createPoll(p) \/ createPoll_gate(p) \/ createPoll_session(p) \/ createPoll_insert(p)
    \/ deletePoll(p) \/ deletePoll_gate(p) \/ deletePoll_fetch(p) \/ deletePoll_delete(p)
    \/ updatePoll(p) \/ updatePoll_gate(p) \/ updatePoll_session(p) \/ updatePoll_update(p)
    \/ submitVote(p) \/ submitVote_gate(p) \/ submitVote_poll(p) \/ submitVote_session(p)
    \/ submitVote_existing(p) \/ submitVote_insert(p)
    \/ login(p) \/ login_signIn(p) \/ register(p) \/ register_signUp(p)
    \/ Resolve(p)

\* invocations overlap: they interleave at their awaited backend calls
Next == (\E p \in Slots : Step(p)) \/ TickPast

Spec == InitFresh /\ [][Next]_vars

\* no two invocations overlap
NextSeq == Step(1) \/ TickPast

SpecSeq == Init /\ [][NextSeq]_vars

\* overlapping invocations in a process that has served requests: in each
\* Map one key has used MAX_ATTEMPTS - 1 attempts of the window opened at
\* time 0, and the polls table holds the poll of u1
GateKey == Key("submit-vote", "anonymous")
AuthGateKey == Key("login", "a@x.io")
InitGate ==
    /\ now = 0
    /\ rateLimit = set(<< >>, GateKey, [count |-> MAX_ATTEMPTS - 1, lastReset |-> 0])
    /\ authRateLimit = set(<< >>, AuthGateKey,
                           [count |-> MAX_ATTEMPTS - 1, lastReset |-> 0])
    /\ polls = set(<< >>, PollIdPool[1], WarmPoll)
    /\ votes = << >>
    /\ created = 1
    /\ nCalls = 0
    /\ InitSlots
    /\ callLog = [k \in RLKeys |-> << >>]
    /\ last = [made |-> FALSE]

SpecGate == InitGate /\ [][Next]_vars

(* ================================================================== *)
(* Claims about the rate limiter (checked under SpecRL)                *)
(* ================================================================== *)
\* the calls of `key` made no later than RESET_INTERVAL after its first call
InFirstWindow(key, i) == callLog[key][i].t - callLog[key][1].t <= RESET_INTERVAL

\* C1: starting from no entry for a key, the first MAX_ATTEMPTS calls made
\* within the window the first call opens all return true, and every later
\* call within that window (the (MAX_ATTEMPTS+1)-th first of all) returns false.
C1_FirstWindowAllowsMaxAttempts ==
    \A key \in RLKeys : \A i \in 1..Len(callLog[key]) :
        InFirstWindow(key, i) => (callLog[key][i].ok <=> i <= MAX_ATTEMPTS)

C1_Witness ==
    \E key \in RLKeys :
        /\ Len(callLog[key]) >= MAX_ATTEMPTS + 1
        /\ InFirstWindow(key, MAX_ATTEMPTS + 1)
        /\ \A i \in 1..MAX_ATTEMPTS : callLog[key][i].ok
        /\ ~callLog[key][MAX_ATTEMPTS + 1].ok

\* the last call found an entry whose window had run out
LastCallAfterExpiry ==
    /\ last.made
    /\ has(last.before, last.key)
    /\ last.t - last.before[last.key].lastReset > RESET_INTERVAL

\* the last call found an entry whose window was still open
LastCallInWindow ==
    /\ last.made
    /\ has(last.before, last.key)
    /\ last.t - last.before[last.key].lastReset <= RESET_INTERVAL

\* C2: a call made more than RESET_INTERVAL after the call that opened the
\* window sets count to 1 and the window start to now and returns true,
\* whatever the count was; a call inside the window (allowed or denied)
\* leaves the window start where it was.
C2_ResetAfterInterval ==
    /\ LastCallAfterExpiry =>
          /\ last.ok
          /\ rateLimit[last.key] = [count |-> 1, lastReset |-> last.t]
    /\ LastCallInWindow =>
          rateLimit[last.key].lastReset = last.before[last.key].lastReset

\* a reset of a key that had used up its attempts and been denied
C2_Witness ==
    /\ LastCallAfterExpiry
    /\ last.before[last.key].count = MAX_ATTEMPTS
    /\ \E i \in 1..Len(callLog[last.key]) : ~callLog[last.key][i].ok
    /\ rateLimit[last.key].count = 1

\* number of calls of `key` from the i-th on that returned true no later
\* than RESET_INTERVAL after the i-th
AllowedWithinInterval(key, i) ==
    Cardinality({j \in i..Len(callLog[key]) :
                    /\ callLog[key][j].ok
                    /\ callLog[key][j].t - callLog[key][i].t <= RESET_INTERVAL})

\* C3 as stated: in every interval of length RESET_INTERVAL at most
\* MAX_ATTEMPTS calls of a key return true.
C3_RollingWindowBound ==
    \A key \in RLKeys : \A i \in 1..Len(callLog[key]) :
        AllowedWithinInterval(key, i) <= MAX_ATTEMPTS

\* the calls of `key` from its i-th call (a reset) up to its next reset
WindowOf(key, i) ==
    {j \in i..Len(callLog[key]) :
        \A m \in (i+1)..j : ~callLog[key][m].reset}

\* C3 as amended: from a call that opens a window up to the next reset of
\* the key at most MAX_ATTEMPTS calls return true; an interval of length
\* RESET_INTERVAL can span two windows and holds at most 2 * MAX_ATTEMPTS
\* calls that return true.
C3_FixedWindowBound ==
    \A key \in RLKeys : \A i \in 1..Len(callLog[key]) :
        /\ callLog[key][i].reset =>
              Cardinality({j \in WindowOf(key, i) : callLog[key][j].ok}) <= MAX_ATTEMPTS
        /\ AllowedWithinInterval(key, i) <= 2 * MAX_ATTEMPTS

\* more than MAX_ATTEMPTS allowed calls inside one interval of RESET_INTERVAL
C3_Witness ==
    \E key \in RLKeys : \E i \in 1..Len(callLog[key]) :
        /\ AllowedWithinInterval(key, i) > MAX_ATTEMPTS
        /\ \E r \in 1..Len(callLog[key]) :
              /\ callLog[key][r].reset
              /\ Cardinality({j \in WindowOf(key, r) : callLog[key][j].ok}) = MAX_ATTEMPTS

\* C4: a call that returns false leaves the whole table as it was; a call
\* that returns true changes the entry of its own key and no other.
C4_Frame ==
    last.made =>
        /\ ~last.ok => rateLimit = last.before
        /\ last.ok =>
              /\ DOMAIN rateLimit = (DOMAIN last.before) \cup {last.key}
              /\ \A k \in (DOMAIN last.before) \ {last.key} :
                    rateLimit[k] = last.before[k]
              /\ has(last.before, last.key) => rateLimit[last.key] # last.before[last.key]

\* a denied call and an allowed call, each with another key in the table
C4_Witness ==
    /\ last.made
    /\ ~last.ok
    /\ Cardinality(DOMAIN rateLimit) = 2
    /\ \E k \in RLKeys \ {last.key} : Len(callLog[k]) > 0

\* C19: in every reachable state every entry of the rate-limit table has
\* 1 <= count <= MAX_ATTEMPTS and a window start that is not later than the
\* current time, and no step removes an entry.
C19_EntriesBoundedAndKept ==
    /\ [](\A k \in DOMAIN rateLimit :
             /\ rateLimit[k].count >= 1
             /\ rateLimit[k].count <= MAX_ATTEMPTS
             /\ rateLimit[k].lastReset <= now)
    /\ [][DOMAIN rateLimit \subseteq DOMAIN rateLimit']_vars

\* a key that has used up its attempts in a window opened earlier has been
\* denied, the entry of another key standing beside it
C19_Witness ==
    /\ last.made
    /\ ~last.ok
    /\ rateLimit[last.key].count = MAX_ATTEMPTS
    /\ rateLimit[last.key].lastReset < now
    /\ Cardinality(DOMAIN rateLimit) = 2

(* ================================================================== *)
(* Claims about the actions, one invocation at a time (SpecSeq)        *)
(* ================================================================== *)
Events(p) == {trace[p][i] : i \in 1..Len(trace[p])}
Finished(p, action) == pc[p] = "done" /\ call[p].action = action
GatePassed(p) == "checkRateLimit" \in Events(p) /\ "denied" \notin Events(p)
BackendOk(p) == "backend error" \notin Events(p)
\* the poll the invocation names existed when the invocation started
PollExisted(p) == has(before[p].polls, call[p].id)
OwnerBefore(p) == before[p].polls[call[p].id].user_id
NotAuthorized == "You are not authorized to delete this poll."

\* deletePoll(id) has returned to a logged-in caller who does not own the poll
DeleteByNonOwner(p) ==
    /\ Finished(p, "delete-poll")
    /\ call[p].caller \in Users
    /\ PollExisted(p)
    /\ OwnerBefore(p) # call[p].caller

\* deletePoll(id) has returned to the owner, the gate passed, no backend error
DeleteByOwner(p) ==
    /\ Finished(p, "delete-poll")
    /\ PollExisted(p)
    /\ OwnerBefore(p) = call[p].caller
    /\ GatePassed(p)
    /\ BackendOk(p)

\* C5: deletePoll by a logged-in user who is not the owner returns an error
\* (the authorization error once the gate is passed and the backend answers)
\* and leaves the polls table as it was; by the owner, within the rate limit
\* and with the backend succeeding, it removes that poll, no other, and
\* returns a null error.
C5_DeleteOwnerOnly ==
    \A p \in Slots :
        /\ DeleteByNonOwner(p) =>
              /\ polls = before[p].polls
              /\ result[p] # NullError
              /\ (GatePassed(p) /\ BackendOk(p)) => result[p] = NotAuthorized
        /\ DeleteByOwner(p) =>
              /\ result[p] = NullError
              /\ DOMAIN polls = (DOMAIN before[p].polls) \ {call[p].id}
              /\ \A k \in DOMAIN polls : polls[k] = before[p].polls[k]

C5_Witness ==
    \E p \in Slots :
        /\ DeleteByNonOwner(p)
        /\ result[p] = NotAuthorized
        /\ has(polls, call[p].id)

\* the owner's deletePoll has removed one of two polls
C5_OwnerCase ==
    \E p \in Slots :
        /\ DeleteByOwner(p)
        /\ Cardinality(DOMAIN before[p].polls) = 2
        /\ Cardinality(DOMAIN polls) = 1

\* updatePoll(pollId, data) has gone all its way for a logged-in caller who
\* does not own the poll
UpdateByNonOwner(p) ==
    /\ Finished(p, "update-poll")
    /\ call[p].caller \in Users
    /\ PollExisted(p)
    /\ OwnerBefore(p) # call[p].caller
    /\ GatePassed(p)
    /\ BackendOk(p)
    /\ result[p] # Thrown

\* C6: updatePoll by a logged-in user who is not the poll's owner is rejected
\* with a non-null error, the owner having been fetched (a select on polls)
\* before the update is issued.
C6_UpdateRejectsNonOwner ==
    \A p \in Slots :
        UpdateByNonOwner(p) =>
            /\ result[p] # NullError
            /\ "select polls" \in Events(p)

\* the state the code reaches instead: a null error, the table untouched
C6_NonOwnerUpdateReportsSuccess ==
    \E p \in Slots :
        /\ UpdateByNonOwner(p)
        /\ result[p] = NullError
        /\ "select polls" \notin Events(p)
        /\ polls = before[p].polls

AlreadyVoted == "You have already voted on this poll."
\* the rows of (poll, user) in a votes table
RowsOf(table, id, user) ==
    SelectSeq(table, LAMBDA v : v.poll_id = id /\ v.user_id = user)
VotesBefore(p) == RowsOf(before[p].votes, call[p].id, call[p].caller)

\* submitVote has returned to a logged-in caller, the gate passed and the
\* backend answered every call
VoteFinished(p) ==
    /\ Finished(p, "submit-vote")
    /\ call[p].caller \in Users
    /\ GatePassed(p)
    /\ BackendOk(p)

\* the row submitVote inserts
VoteRow(p) ==
    [poll_id |-> call[p].id, user_id |-> call[p].caller, option_index |-> call[p].index]

\* C7 as stated: a user with a vote row for P gets the 'already voted' error
\* for any index, and no row is added; another user without a vote on P who
\* submits a valid index succeeds and adds exactly one row.
C7_SecondVoteRejectedAnyIndex ==
    \A p \in Slots :
        (VoteFinished(p) /\ Len(VotesBefore(p)) = 1) =>
            /\ result[p] = AlreadyVoted
            /\ votes = before[p].votes

\* the index is one of the options of the poll as the invocation found it
IndexInRange(p) ==
    /\ PollExisted(p)
    /\ call[p].index >= 0
    /\ call[p].index < Len(before[p].polls[call[p].id].options)

\* C7 as amended: a user with a vote row for an existing poll P gets the
\* 'already voted' error for any index within the poll's options, and another
\* error for any other index; no row of that user is added, and no row at all
\* when the backend answers every call (a failed session lookup before the
\* duplicate check stores the vote as an anonymous row).  Another user
\* without a vote on P who submits an index within the options succeeds and
\* adds exactly one row, that user's own.
C7_SecondVoteRejected ==
    \A p \in Slots :
        /\ (Finished(p, "submit-vote") /\ call[p].caller \in Users
                /\ Len(VotesBefore(p)) = 1) =>
              /\ RowsOf(votes, call[p].id, call[p].caller) = VotesBefore(p)
              /\ BackendOk(p) => (votes = before[p].votes /\ result[p] # NullError)
        /\ (VoteFinished(p) /\ Len(VotesBefore(p)) = 1 /\ IndexInRange(p)) =>
              result[p] = AlreadyVoted
        /\ (VoteFinished(p) /\ Len(VotesBefore(p)) = 0 /\ IndexInRange(p)) =>
              /\ result[p] = NullError
              /\ votes = Append(before[p].votes, VoteRow(p))

\* u2 has voted on a poll on which u1 has a vote already
C7_Witness ==
    \E p \in Slots :
        /\ VoteFinished(p)
        /\ Len(VotesBefore(p)) = 0
        /\ result[p] = NullError
        /\ \E i \in 1..Len(before[p].votes) :
              /\ before[p].votes[i].poll_id = call[p].id
              /\ before[p].votes[i].user_id # call[p].caller
        /\ Len(votes) = Len(before[p].votes) + 1

\* the second vote of the same user has been turned down
C7_RejectedCase ==
    \E p \in Slots :
        /\ VoteFinished(p)
        /\ Len(VotesBefore(p)) = 1
        /\ result[p] = AlreadyVoted

OutOfRange == "Invalid option selected."
OptionsBefore(p) == before[p].polls[call[p].id].options

\* C8: submitVote on an existing poll with optionIndex equal to the number
\* of options, or larger, inserts no row and returns an error (the
\* out-of-range error once the gate is passed and the backend answers);
\* with optionIndex = options.length - 1, the rate limit not exceeded, no
\* prior vote of the caller and the backend succeeding, it returns a null
\* error and inserts the row.
C8_IndexBoundary ==
    \A p \in Slots :
        (Finished(p, "submit-vote") /\ PollExisted(p)) =>
            /\ call[p].index >= Len(OptionsBefore(p)) =>
                  /\ votes = before[p].votes
                  /\ result[p] # NullError
                  /\ (GatePassed(p) /\ BackendOk(p)) => result[p] = OutOfRange
            /\ (/\ call[p].index = Len(OptionsBefore(p)) - 1
                /\ GatePassed(p)
                /\ BackendOk(p)
                /\ Len(VotesBefore(p)) = 0) =>
                  /\ result[p] = NullError
                  /\ votes = Append(before[p].votes, VoteRow(p))

\* optionIndex = options.length has been turned down as out of range
C8_Witness ==
    \E p \in Slots :
        /\ Finished(p, "submit-vote")
        /\ PollExisted(p)
        /\ call[p].index = Len(OptionsBefore(p))
        /\ result[p] = OutOfRange

\* optionIndex = options.length - 1 has been accepted
C8_AcceptedCase ==
    \E p \in Slots :
        /\ Finished(p, "submit-vote")
        /\ PollExisted(p)
        /\ call[p].index = Len(OptionsBefore(p)) - 1
        /\ result[p] = NullError
        /\ Len(votes) = Len(before[p].votes) + 1

SchemaEvents == {"idSchema", "voteSchema", "pollSchema", "loginSchema", "registerSchema"}
BackendEvents == {"getUser", "select polls", "select votes", "insert polls",
                  "insert votes", "update polls", "delete polls", "signIn", "signUp"}
MutationEvents == {"insert polls", "insert votes", "update polls", "delete polls",
                   "signIn", "signUp"}
\* where the rate-limit check stands in the history of an invocation
GateAt(p) == CHOOSE i \in 1..Len(trace[p]) : trace[p][i] = "checkRateLimit"
Gated(p) == "checkRateLimit" \in Events(p)
EventsBeforeGate(p) == {trace[p][i] : i \in 1..(GateAt(p) - 1)}
EventsAfterGate(p) == {trace[p][i] : i \in (GateAt(p) + 1)..Len(trace[p])}
Denied(p) == "denied" \in Events(p)

\* C9 as stated: in every invocation the rate-limit check comes before any
\* schema validation and any backend call, and a denial returns with no
\* validation and no backend call made.
C9_GateFirst ==
    \A p \in Slots :
        /\ (Events(p) \cap (SchemaEvents \cup BackendEvents) # {}) => Gated(p)
        /\ Gated(p) => EventsBeforeGate(p) \cap (SchemaEvents \cup BackendEvents) = {}
        /\ Denied(p) => Events(p) \cap (SchemaEvents \cup BackendEvents) = {}

\* C9 as amended: the rate-limit check comes before every access to a table,
\* every sign-in or sign-up and the validation of the body (pollSchema,
\* loginSchema, registerSchema), the mutation coming last; a denial returns
\* at once, with nothing done after the check.  Before the check the poll
\* actions look the session up (the key is built from it), and submitVote,
\* updatePoll and deletePoll validate the identifier first: an identifier that
\* fails returns with no rate-limit check made and no attempt counted.
C9_GateBeforeBodyAndBackend ==
    \A p \in Slots :
        /\ Gated(p) =>
              /\ EventsBeforeGate(p) \subseteq
                    {"idSchema", "voteSchema", "getUser", "backend error"}
              /\ ("pollSchema" \in Events(p)) => "pollSchema" \in EventsAfterGate(p)
        /\ (Events(p) \cap (MutationEvents \cup {"select polls", "select votes",
                               "pollSchema", "loginSchema", "registerSchema"}) # {})
              => Gated(p)
        /\ Denied(p) =>
              /\ pc[p] = "done"
              /\ EventsAfterGate(p) = {"denied"}
        /\ (call[p].action \in {"login", "register", "create-poll"} /\ Gated(p)) =>
              EventsBeforeGate(p) \cap SchemaEvents = {}
        /\ (call[p].action \in {"submit-vote", "update-poll", "delete-poll"}) =>
              /\ trace[p][1] \in {"idSchema", "voteSchema"}
              /\ (call[p].id = NotAUuid \/ call[p].index < 0) =>
                    /\ pc[p] = "done"
                    /\ ~Gated(p)
                    /\ Len(trace[p]) = 1
        /\ \A i \in 1..Len(trace[p]) :
              trace[p][i] \in MutationEvents =>
                  \A j \in (i+1)..Len(trace[p]) :
                      trace[p][j] \in {"backend error", "revalidatePath"}

\* a poll action has been denied by the rate limiter after its identifier
\* was validated and the session looked up
C9_Witness ==
    \E p \in Slots :
        /\ Denied(p)
        /\ call[p].action \in {"submit-vote", "update-poll", "delete-poll"}
        /\ trace[p] = <<trace[p][1], "getUser", "checkRateLimit", "denied">>
        /\ polls = before[p].polls

InvalidId == "Invalid ID format"

\* C10: updatePoll and deletePoll called with an identifier that is not a
\* UUID return the error of idSchema with no backend call made (no session
\* lookup, select, update or delete), no rate-limit attempt counted, and the
\* tables as they were.
C10_InvalidIdRejectedFirst ==
    \A p \in Slots :
        (call[p].action \in {"update-poll", "delete-poll"} /\ call[p].id = NotAUuid) =>
            /\ pc[p] = "done"
            /\ result[p] = InvalidId
            /\ Events(p) \cap BackendEvents = {}
            /\ trace[p] = <<"idSchema">>
            /\ polls = before[p].polls
            /\ votes = before[p].votes

\* updatePoll with a valid body and an invalid identifier, a poll existing
C10_Witness ==
    \E p \in Slots :
        /\ call[p].action = "update-poll"
        /\ call[p].id = NotAUuid
        /\ pollSchemaOk(call[p].form.question, filterBoolean(call[p].form.options))
        /\ call[p].caller \in Users
        /\ polls # << >>
        /\ result[p] = InvalidId

\* the invocation has failed in one of the ways the actions name: denied by
\* the rate limiter, an input a schema turns down, a backend call in error
SchemaFailed(p) ==
    \/ call[p].action \in {"update-poll", "delete-poll", "submit-vote"}
          /\ call[p].id = NotAUuid
    \/ call[p].action = "submit-vote" /\ call[p].index < 0
    \/ /\ call[p].action \in {"create-poll", "update-poll"}
       /\ "pollSchema" \in Events(p)
       /\ \/ Len(SelectSeq(call[p].form.options, LAMBDA o : o.pad + o.core > 0)) < 2
          \/ call[p].form.question.pad + call[p].form.question.core < 5
    \/ /\ call[p].action \in {"login", "register"}
       /\ Events(p) \cap {"loginSchema", "registerSchema"} # {}
       /\ (~call[p].auth.valid \/ call[p].auth.password < 6)

\* C11: every failure kind (rate limit exceeded, validation failed, backend
\* failure, ...) in every action comes back as a result object whose error is
\* a non-null string; no action ends by throwing, createPoll and updatePoll
\* on a question or options the schema turns down included.
C11_FailuresReturnedNotThrown ==
    \A p \in Slots :
        pc[p] = "done" =>
            /\ result[p] # Thrown
            /\ (Denied(p) \/ SchemaFailed(p)) =>
                  (result[p] # NullError /\ result[p] # Undefined)

\* what the code does instead: createPoll ends with the ZodError thrown
C11_CreatePollThrows ==
    \E p \in Slots :
        /\ Finished(p, "create-poll")
        /\ SchemaFailed(p)
        /\ result[p] = Thrown
        /\ polls = before[p].polls

\* ... and submitVote with a negative index returns { error: undefined }
C11_VoteErrorUndefined ==
    \E p \in Slots :
        /\ Finished(p, "submit-vote")
        /\ call[p].index < 0
        /\ result[p] = Undefined

\* C12: whenever a backend call (session lookup, select, insert, update,
\* delete, sign-in, sign-up) reports an error, the error string the action
\* returns is one of its fixed generic messages, never the backend's text.
C12_BackendTextNeverReturned ==
    \A p \in Slots :
        (pc[p] = "done" /\ ~BackendOk(p)) => result[p] # BackendMessage

\* what the code does instead: deletePoll hands the message of getUser on
C12_DeleteReturnsBackendText ==
    \E p \in Slots :
        /\ Finished(p, "delete-poll")
        /\ trace[p] = <<"idSchema", "getUser", "backend error", "checkRateLimit">>
        /\ result[p] = BackendMessage

\* the options of the form that are not the empty string
NonEmptyOptions(p) ==
    SelectSeq(call[p].form.options, LAMBDA o : o.pad + o.core > 0)

\* C13: in every reachable state every row of polls has at least two
\* options; createPoll and updatePoll given fewer than two non-empty options
\* write nothing.
C13_AtLeastTwoOptions ==
    /\ \A k \in DOMAIN polls : Len(polls[k].options) >= 2
    /\ \A p \in Slots :
          (/\ call[p].action \in {"create-poll", "update-poll"}
           /\ Len(NonEmptyOptions(p)) < 2) =>
              /\ polls = before[p].polls
              /\ result[p] # NullError \/ pc[p] # "done"

\* updatePoll with a single option has ended on a poll of its caller, which
\* still has the options it had
C13_Witness ==
    \E p \in Slots :
        /\ Finished(p, "update-poll")
        /\ Len(NonEmptyOptions(p)) = 1
        /\ "pollSchema" \in Events(p)
        /\ PollExisted(p)
        /\ OwnerBefore(p) = call[p].caller
        /\ polls = before[p].polls

\* updatePoll has replaced the two options of a poll by three
C13_UpdatedCase ==
    \E p \in Slots :
        /\ Finished(p, "update-poll")
        /\ PollExisted(p)
        /\ Len(OptionsBefore(p)) = 2
        /\ Len(polls[call[p].id].options) = 3

\* the error of a poll action called without a session
MustBeLoggedIn(action) ==
    CASE action = "create-poll" -> "You must be logged in to create a poll."
      [] action = "update-poll" -> "You must be logged in to update a poll."
      [] action = "delete-poll" -> "You must be logged in to delete a poll."

\* a poll action called by a caller who has no session
Anonymous(p) ==
    /\ call[p].action \in {"create-poll", "update-poll", "delete-poll"}
    /\ call[p].caller = NoUser

\* C17: a caller with no session never changes the polls table: createPoll,
\* updatePoll and deletePoll called without a logged-in user issue no
\* insert, update or delete, and return the 'must be logged in' error when
\* the input passes the schemas, the rate limit is not exceeded and the
\* session lookup reports no error.
C17_AnonymousChangesNothing ==
    \A p \in Slots :
        Anonymous(p) =>
            /\ polls = before[p].polls
            /\ Events(p) \cap {"insert polls", "update polls", "delete polls"} = {}
            /\ (pc[p] = "done" /\ GatePassed(p) /\ BackendOk(p) /\ ~SchemaFailed(p)) =>
                  result[p] = MustBeLoggedIn(call[p].action)

\* createPoll with a valid body, no session: turned away before the insert
C17_Witness ==
    \E p \in Slots :
        /\ Anonymous(p)
        /\ Finished(p, "create-poll")
        /\ Len(NonEmptyOptions(p)) >= 2
        /\ trace[p] = <<"getUser", "checkRateLimit", "pollSchema", "getUser">>
        /\ result[p] = "You must be logged in to create a poll."

\* deletePoll of an existing poll, no session: turned away, the poll is there
C17_DeleteCase ==
    \E p \in Slots :
        /\ Anonymous(p)
        /\ Finished(p, "delete-poll")
        /\ PollExisted(p)
        /\ result[p] = "You must be logged in to delete a poll."
        /\ has(polls, call[p].id)

\* slot p runs the rate-limit gate of a poll action in this step
GateStep(p) ==
    /\ pc[p] \in {"createPoll_gate", "updatePoll_gate", "deletePoll_gate",
                  "submitVote_gate"}
    /\ pc'[p] # pc[p]
\* slot p runs login or register up to their gate in this step
AuthGateStep(p) ==
    /\ pc[p] = "idle"
    /\ call'[p].action \in {"login", "register"}
\* the session lookup of that step reports no error
SessionLookupOk(p) == \A i \in 1..Len(trace'[p]) : trace'[p][i] # "backend error"
DeniedInStep(p) == \E i \in 1..Len(trace'[p]) : trace'[p][i] = "denied"

\* the counter of the caller: the action kind with the caller's user id, or
\* with the sentinel of the callers who have no session
OwnKey(p) ==
    [action |-> call[p].action,
     id |-> IF call[p].caller \in Users THEN call[p].caller ELSE "anonymous"]
AnonymousKey(p) == [action |-> call[p].action, id |-> "anonymous"]
\* the attempts of a key are used up in its open window
Exhausted(rl, key) ==
    /\ key \in DOMAIN rl
    /\ now - rl[key].lastReset <= RESET_INTERVAL
    /\ rl[key].count >= MAX_ATTEMPTS
\* a step changes no entry of the Map but that of `key`
OnlyKeyChanges(old, new, key) ==
    /\ DOMAIN new = (DOMAIN old) \cup {key}
    /\ \A k \in (DOMAIN old) \ {key} : new[k] = old[k]

\* C18 as stated: the counters are scoped per (action kind, identity): the
\* gate of an invocation reads and changes the counter of its action and its
\* caller (the user id, one shared sentinel for all callers without a
\* session) and no other, so no attempt of an authenticated user counts
\* against, or is denied by, the counter of another caller or action.
C18_OwnCounterOnly ==
    [][\A p \in Slots :
          GateStep(p) =>
              /\ OnlyKeyChanges(rateLimit, rateLimit', OwnKey(p))
              /\ DeniedInStep(p) <=> Exhausted(rateLimit, OwnKey(p))
              /\ authRateLimit' = authRateLimit]_vars

\* the key the gate of a poll action builds from the session lookup
UsedKey(p) == IF SessionLookupOk(p) THEN OwnKey(p) ELSE AnonymousKey(p)

\* C18 as amended: the gate of a poll action reads and changes one counter
\* and no other, that of (action kind, user id) when the session lookup
\* yields the user, and that of (action kind, anonymous), shared by all
\* callers without a session, when it yields none, a failed lookup of a
\* logged-in caller included; login and register count per (action kind,
\* email) in a Map of their own.  The invocation is denied exactly when that
\* one counter has used up MAX_ATTEMPTS in its open window.
C18_ResolvedIdentityCounterOnly ==
    [][\A p \in Slots :
          /\ GateStep(p) =>
                /\ OnlyKeyChanges(rateLimit, rateLimit', UsedKey(p))
                /\ DeniedInStep(p) <=> Exhausted(rateLimit, UsedKey(p))
                /\ authRateLimit' = authRateLimit
          /\ AuthGateStep(p) =>
                LET key == [action |-> call'[p].action, id |-> call'[p].auth.email]
                IN /\ OnlyKeyChanges(authRateLimit, authRateLimit', key)
                   /\ DeniedInStep(p) <=> Exhausted(authRateLimit, key)
                   /\ rateLimit' = rateLimit]_vars

\* submitVote without a session is denied on the counter that an earlier
\* anonymous submitVote has filled
C18_Witness ==
    \E p \in Slots :
        /\ Finished(p, "submit-vote")
        /\ call[p].caller = NoUser
        /\ Denied(p)
        /\ BackendOk(p)
        /\ nCalls = 2
        /\ DOMAIN rateLimit = {AnonymousKey(p)}
        /\ rateLimit[AnonymousKey(p)].count = MAX_ATTEMPTS

\* u2 passes the gate of an action on which u1 has used up the attempts
C18_OtherUserPasses ==
    \E p \in Slots :
        /\ pc[p] = "done"
        /\ call[p].caller = "u2"
        /\ GatePassed(p)
        /\ BackendOk(p)
        /\ Exhausted(rateLimit, [action |-> call[p].action, id |-> "u1"])

\* the failed session lookup of a logged-in caller has been counted on the
\* counter of the callers without a session
C18_CountedAsAnonymous ==
    \E p \in Slots :
        /\ pc[p] = "done"
        /\ call[p].caller \in Users
        /\ GatePassed(p)
        /\ DOMAIN rateLimit = {AnonymousKey(p)}
        /\ rateLimit[AnonymousKey(p)].count = MAX_ATTEMPTS

(* ================================================================== *)
(* Claims about overlapping invocations (Spec)                         *)
(* ================================================================== *)
\* C14: under any interleaving of createPoll, updatePoll and deletePoll
\* invocations (a step per backend round-trip, the delete apart from its
\* ownership check), a step changes or removes a row of polls only when it
\* is the update or delete of an invocation whose caller is the row's
\* user_id, and a row that appears bears the id of the caller who created it.
C14_OnlyOwnerChangesPoll ==
    [][/\ \A k \in DOMAIN polls :
             (k \notin DOMAIN polls' \/ polls'[k] # polls[k]) =>
                 \E p \in Slots :
                     /\ pc[p] \in {"updatePoll_update", "deletePoll_delete"}
                     /\ pc'[p] = "done"
                     /\ call[p].id = k
                     /\ call[p].caller = polls[k].user_id
       /\ \A k \in (DOMAIN polls') \ (DOMAIN polls) :
             \E p \in Slots :
                 /\ pc[p] = "createPoll_insert"
                 /\ pc'[p] = "done"
                 /\ call[p].caller = polls'[k].user_id]_vars

\* the update of a caller who is not the owner has reached the backend and
\* left the row alone, while the owner's deletePoll stands between its
\* ownership check and its delete
C14_Witness ==
    \E p \in Slots, q \in Slots :
        /\ p # q
        /\ Finished(p, "update-poll")
        /\ "update polls" \in Events(p)
        /\ BackendOk(p)
        /\ has(polls, call[p].id)
        /\ polls[call[p].id].user_id # call[p].caller
        /\ call[p].caller \in Users
        /\ call[q].action = "delete-poll"
        /\ call[q].id = call[p].id
        /\ pc[q] = "deletePoll_delete"

\* the existing-vote select of slot p resolves in this step and lets the
\* invocation go on to its insert
PassesExistingCheck(p) ==
    pc[p] = "submitVote_existing" /\ pc'[p] = "submitVote_insert"

\* C15: the existing-vote check of submitVote reads the votes table as it
\* stands when the select resolves, and the insert that follows is a step of
\* its own on which the backend enforces no uniqueness: the check lets the
\* invocation pass unless exactly one row of (poll_id, user_id) is there at
\* that moment, and a successful insert appends its row whatever the table
\* holds by then.  Two overlapping invocations of one user on one poll can
\* so both pass the check before either insert, and a state with two rows
\* for one (poll_id, user_id) is reachable (C15_Witness).
C15_CheckThenInsertNotAtomic ==
    [][\A p \in Slots :
          /\ PassesExistingCheck(p) =>
                Len(RowsOf(votes, call[p].id, loc[p].user)) # 1
          /\ (pc[p] = "submitVote_existing" /\ result'[p] = AlreadyVoted) =>
                Len(RowsOf(votes, call[p].id, loc[p].user)) = 1
          /\ (pc[p] = "submitVote_insert" /\ pc'[p] = "done"
                  /\ result'[p] = NullError) =>
                votes' = Append(votes, [poll_id |-> call[p].id,
                                        user_id |-> loc[p].user,
                                        option_index |-> call[p].index])]_vars

\* both invocations of one user on one poll have passed the existing-vote
\* check and inserted: two rows for one (poll_id, user_id)
C15_Witness ==
    \E p \in Slots, q \in Slots :
        /\ p # q
        /\ VoteFinished(p) /\ VoteFinished(q)
        /\ call[p].caller = call[q].caller
        /\ call[p].id = call[q].id
        /\ result[p] = NullError /\ result[q] = NullError
        /\ "select votes" \in Events(p) /\ "select votes" \in Events(q)
        /\ Len(RowsOf(votes, call[p].id, call[p].caller)) = 2

\* both invocations stand between the check they passed and their insert
C15_BothPassed ==
    \E p \in Slots, q \in Slots :
        /\ p # q
        /\ pc[p] = "submitVote_insert" /\ pc[q] = "submitVote_insert"
        /\ loc[p].user \in Users
        /\ loc[p].user = loc[q].user
        /\ call[p].id = call[q].id
        /\ RowsOf(votes, call[p].id, loc[p].user) = << >>

\* the insert of slot p stores its row in this step
InsertsVote(p) ==
    pc[p] = "submitVote_insert" /\ pc'[p] = "done" /\ votes' # votes

\* C16: every row submitVote inserts has 0 <= option_index < the number of
\* options of the poll it names as that poll stands at the moment of the
\* insert, also when the owner's updatePoll or deletePoll runs between
\* submitVote's read of the options and its insert.
C16_IndexInRangeAtInsert ==
    [][\A p \in Slots :
          InsertsVote(p) =>
              /\ has(polls, call[p].id)
              /\ call[p].index >= 0
              /\ call[p].index < Len(polls[call[p].id].options)]_vars

\* what the code allows: a vote stored for a poll that its owner deleted
\* after submitVote had read the options
C16_VoteOnDeletedPoll ==
    \E p \in Slots, q \in Slots :
        /\ p # q
        /\ Finished(p, "submit-vote")
        /\ result[p] = NullError
        /\ Len(votes) = Len(before[p].votes) + 1
        /\ votes[Len(votes)].poll_id = call[p].id
        /\ ~has(polls, call[p].id)
        /\ Finished(q, "delete-poll")
        /\ call[q].id = call[p].id
        /\ result[q] = NullError

(* ================================================================== *)
(* Claims about the gate under overlapping invocations (SpecGate)      *)
(* ================================================================== *)
\* one check-and-increment on the entry of `key`, decided and applied on the
\* Map as the step finds it
AtomicOn(old, new, key, denied) ==
    IF key \notin DOMAIN old \/ now - old[key].lastReset > RESET_INTERVAL
    THEN ~denied /\ new[key] = [count |-> 1, lastReset |-> now]
    ELSE IF old[key].count >= MAX_ATTEMPTS
    THEN denied /\ new = old
    ELSE /\ ~denied
         /\ new[key] = [count |-> old[key].count + 1, lastReset |-> old[key].lastReset]

\* the invocation of slot p has passed the gate on the anonymous counter of
\* submitVote, or on the counter of the login of a@x.io
PassedOnWarmKey(p, action) ==
    /\ call[p].action = action
    /\ GatePassed(p)
    /\ action = "submit-vote" => (call[p].caller = NoUser \/ trace[p][3] = "backend error")
    /\ action = "login" => call[p].auth.email = "a@x.io"

\* C20: checkRateLimit has no suspension point, so with invocations in
\* flight at once, interleaving at their awaited backend calls, every
\* check-and-increment is one step: the gate of an invocation decides on the
\* entry as it stands and counts the attempt in that same step, no other
\* step writes the Maps, no count exceeds MAX_ATTEMPTS, and of the
\* invocations that reach the gate of a key with one attempt left in its
\* window no more than one passes.
C20_GateAtomicUnderOverlap ==
    /\ [](/\ \A k \in DOMAIN rateLimit : rateLimit[k].count <= MAX_ATTEMPTS
          /\ \A k \in DOMAIN authRateLimit : authRateLimit[k].count <= MAX_ATTEMPTS
          /\ now = 0 =>
                \A action \in {"submit-vote", "login"} :
                    Cardinality({p \in Slots : PassedOnWarmKey(p, action)}) <= 1)
    /\ [][/\ \A p \in Slots :
                /\ GateStep(p) =>
                      AtomicOn(rateLimit, rateLimit', UsedKey(p), DeniedInStep(p))
                /\ AuthGateStep(p) =>
                      AtomicOn(authRateLimit, authRateLimit',
                               [action |-> call'[p].action, id |-> call'[p].auth.email],
                               DeniedInStep(p))
          /\ rateLimit' # rateLimit => \E p \in Slots : GateStep(p)
          /\ authRateLimit' # authRateLimit => \E p \in Slots : AuthGateStep(p)]_vars

\* two anonymous submitVote invocations in flight at once: the first has
\* taken the last attempt and still awaits the backend, the second is denied
C20_Witness ==
    \E p \in Slots, q \in Slots :
        /\ p # q
        /\ now = 0
        /\ PassedOnWarmKey(p, "submit-vote")
        /\ pc[p] \in {"submitVote_poll", "submitVote_session", "submitVote_insert"}
        /\ call[q].action = "submit-vote"
        /\ Denied(q)
        /\ rateLimit[GateKey].count = MAX_ATTEMPTS

\* the same for two logins of one email
C20_LoginCase ==
    \E p \in Slots, q \in Slots :
        /\ p # q
        /\ now = 0
        /\ PassedOnWarmKey(p, "login")
        /\ pc[p] = "login_signIn"
        /\ call[q].action = "login"
        /\ Denied(q)

====
